---- MODULE Spec2Model ----
(***************************************************************************)
(* TEA5767_Radio.ino: the front panel of an FM receiver.                   *)
(*                                                                         *)
(* The model follows the sketch:                                           *)
(*   - status is the shared flag byte, frequency the tuned frequency;      *)
(*   - loop() is cut into the steps between which an interrupt handler     *)
(*     can run: every bitWrite of the main program is a load of the byte   *)
(*     into a register followed by a store of the modified register        *)
(*     (status is a plain global, not volatile, not guarded by cli/sei);   *)
(*   - isrEncoder and isrSwitch run with interrupts disabled: a handler is *)
(*     entered on its latched interrupt flag, pauses (delay(50)), acts and *)
(*     returns; edges that arrive meanwhile latch the flag again;          *)
(*   - the LCD is its 2 x 16 visible cells and a cursor;                   *)
(*   - the TEA5767 is the frequency it is tuned to.                        *)
(*                                                                         *)
(* Frequencies are integers in units of 0.01 MHz (10 kHz): 88.0 MHz is     *)
(* 8800, a manual step of 0.1 MHz is 10.  The conversions of the sketch    *)
(* (rounding of the tuner's reading, truncation of the dial position,      *)
(* integer percentage) are computed as the C code computes them.           *)
(*                                                                         *)
(* Spec is the whole sketch.  The other specifications run the same        *)
(* actions in narrower settings: SpecStep and SpecScale apply one step to  *)
(* every input of its domain, SpecSix is a series of isolated turns,       *)
(* SpecPanel the display under every snapshot, SpecBoth a call of loop()   *)
(* that finds both direction flags set, SpecLive the sketch under fair     *)
(* scheduling.                                                             *)
(***************************************************************************)
EXTENDS Integers, Sequences, FiniteSets

VARIABLES
    status,          \* byte status (line 88): the five ST_* bits
    frequency,       \* float frequency (line 87), in 0.01 MHz
    pc,              \* where loop() stands
    reg,             \* the register holding status between the load and the store of a bitWrite
    searchDirection, \* loop()'s local int searchDirection (line 228)
    seeking,         \* direction of the search command that set ST_SEARCH, or "None"
    buf,             \* loop()'s buf: the status snapshot being displayed, or NoSnapshot
    lcd,             \* the display: [cur |-> DDRAM address, cells |-> visible cells]
    radio,           \* the frequency the TEA5767 is tuned to, in 0.01 MHz
    cmds,            \* the commands loop() has sent to the tuner in the current call
    isr,             \* the handler that is running and its position, or "none"
    intSw,           \* latched interrupt flag of the switch line (interrupt 2)
    intEnc,          \* latched interrupt flag of encoder line A (interrupt 3)
    swRuns,          \* runs of isrSwitch caused by the current burst of switch edges (capped)
    encRuns,         \* runs of isrEncoder caused by the current burst of encoder edges (capped)
    edges            \* rising edges counted so far (bounded in each specification)

vars == <<status, frequency, pc, reg, searchDirection, seeking, buf, lcd, radio, cmds,
          isr, intSw, intEnc, swRuns, encRuns, edges>>

----------------------------------------------------------------------------
(* Bounds of the model *)

\* Encoder edges in one run of the model.
MaxEdges == 2

\* Handler runs counted per burst.
MaxRuns == 2

\* Encoder events of the scenario of isolated turns.
SixEvents == 6

\* Rising edges, of the button and the encoder together, of the fair runs.
LiveEdges == 3

----------------------------------------------------------------------------
(* Constants of the sketch *)

SCALE_CLEAR == 5
STEREO_CHAR_S == 6
STEREO_CHAR_T == 7

ST_AUTO == 0
ST_STEREO == 1
ST_GO_UP == 2
ST_GO_DOWN == 3
ST_SEARCH == 4

\* Band edges tested by the manual steps, and the manual step, in 0.01 MHz.
FreqMin == 8800
FreqMax == 10800
FreqStep == 10

\* Character codes written to the display.
ChSpace == 32
ChPercent == 37
ChDot == 46
ChZero == 48
ChA == 65
ChM == 77
ChAntenna == 183

----------------------------------------------------------------------------
(* The environment: what the tuner can be asked or found to do *)

\* Frequencies (0.01 MHz) an automatic search of the TEA5767 can stop at: a
\* station between the band limits of the chip, or a band limit itself (the
\* chip's US/Europe band runs from 87.5 MHz to 108 MHz).  The PLL grid is not
\* the 0.1 MHz grid of the sketch, so a reading need not be a multiple of 10.
Stations == {8750, 9196, 10795}

\* Signal levels (0..15) carried by the status snapshots of Spec.
Levels == {15}

Directions == {"Up", "Down"}

\* Every level the tuner's 4-bit level reading can take.
AllLevels == 0 .. 15

\* The stereo flag of the snapshots of the whole-program specification.
Mono == {FALSE}

----------------------------------------------------------------------------
(* Arithmetic of the C code *)

\* Integer division and remainder of C: the quotient is truncated toward zero.
CDiv(a, b) == IF a >= 0 THEN a \div b ELSE -((-a) \div b)

CMod(a, b) == a - b * CDiv(a, b)

\* bitRead(value, bit): (((value) >> (bit)) & 0x01)
bitRead(value, bit) == (value \div (2 ^ bit)) % 2

\* bitWrite(value, bit, bitvalue): the new content of value.
bitWrite(value, bit, bitvalue) ==
    IF bitvalue = 1
    THEN (IF bitRead(value, bit) = 1 THEN value ELSE value + 2 ^ bit)
    ELSE (IF bitRead(value, bit) = 1 THEN value - 2 ^ bit ELSE value)

\* The decimal digits of n >= 0 as character codes (Print::print(int)).
RECURSIVE DigitsOf(_)
DigitsOf(n) ==
    IF n < 10 THEN <<ChZero + n>> ELSE Append(DigitsOf(n \div 10), ChZero + (n % 10))

\* Line 236 without the rounding: the tuner's frequency as reported.
ReadFrequencyUnrounded(r) == r

\* Line 236: frequency = floor(Radio.frequency_available(buf) / 100000 + .5) / 10,
\* for a reading r in 0.01 MHz: the reading rounded to the nearest 0.1 MHz.
ReadFrequency(r) == ((r + 5) \div 10) * 10

\* Line 239: signalLevel = (Radio.signal_level(buf) * 100) / 15.
SignalPercent(level) == CDiv(level * 100, 15)

----------------------------------------------------------------------------
(* The display (LiquidCrystal on a 16 x 2 HD44780) *)

\* DDRAM addresses of the visible cells: row 0 is 0..15, row 1 is 64..79.
LcdAddr(col, row) == row * 64 + col

VisibleCells == (0 .. 15) \cup (64 .. 79)

\* lcd.setCursor(col, row)
LcdSetCursor(l, col, row) == [l EXCEPT !.cur = LcdAddr(col, row)]

\* lcd.write(ch): the byte ch goes to the cell under the cursor, which advances.
LcdWrite(l, ch) ==
    [cur   |-> l.cur + 1,
     cells |-> IF l.cur \in VisibleCells
               THEN [l.cells EXCEPT ![l.cur] = ch % 256]
               ELSE l.cells]

\* lcd.print of a string of character codes.
RECURSIVE LcdPrint(_, _)
LcdPrint(l, s) == IF s = <<>> THEN l ELSE LcdPrint(LcdWrite(l, Head(s)), Tail(s))

\* lcd.print(frequency, 1) for a frequency f >= 0 on the 0.1 MHz grid.
FrequencyText(f) == DigitsOf(f \div 100) \o <<ChDot>> \o DigitsOf((f % 100) \div 10)

\* setup(), lines 197-202: lcd.clear(), then sixteen SCALE_CLEAR from the home position.
LcdAfterSetup ==
    [cur   |-> 16,
     cells |-> [a \in VisibleCells |-> IF a < 16 THEN SCALE_CLEAR ELSE ChSpace]]

----------------------------------------------------------------------------
(* updateScale(), lines 96-115 *)

\* lcdBase without line 98: the position is not held at 79.
lcdBaseUnclamped(f) == CDiv((f - 8800) * 4, 100)

\* int lcdBase = (frequency - 88) * 4, truncated by the conversion to int, at most 79.
\* updateScale runs on a frequency fresh from line 236, the float nearest to a
\* multiple of 0.1: the product is a whole number only at multiples of 0.5,
\* which a float holds exactly, and is otherwise at least 0.2 from one, so the
\* truncation of the float product is the truncation of the exact one.
lcdBase(f) ==
    LET b == CDiv((f - 8800) * 4, 100) IN IF b > 79 THEN 79 ELSE b

lcdMajor(f) == CDiv(lcdBase(f), 5)

lcdMinor(f) == CMod(lcdBase(f), 5)

updateScale(l, f) ==
    LET l1 == IF lcdMajor(f) > 0
              THEN LcdWrite(LcdSetCursor(l, lcdMajor(f) - 1, 0), SCALE_CLEAR)
              ELSE LcdSetCursor(l, lcdMajor(f), 0)
        l2 == LcdWrite(l1, lcdMinor(f))
    IN  IF lcdMajor(f) < 15 THEN LcdWrite(l2, SCALE_CLEAR) ELSE l2

----------------------------------------------------------------------------
(* State after setup(), lines 147-218 *)

AtLoopStart == <<"Loop", "indicator">>

\* loop()'s buf holds no snapshot that is still to be displayed.
NoSnapshot == [hz |-> 0, stereo |-> FALSE, level |-> 0, fresh |-> FALSE]

Init ==
    /\ status = 0
    /\ frequency = 8800
    /\ pc = AtLoopStart
    /\ reg = 0
    /\ searchDirection = "Indeterminate"
    /\ seeking = "None"
    /\ buf = NoSnapshot
    /\ lcd = LcdAfterSetup
    /\ radio = 8800
    /\ cmds = <<>>
    /\ isr = "none"
    /\ intSw = FALSE
    /\ intEnc = FALSE
    /\ swRuns = 0
    /\ encRuns = 0
    /\ edges = 0

----------------------------------------------------------------------------
(* Interrupts: attachInterrupt(2, isrSwitch, RISING), attachInterrupt(3,    *)
(* isrEncoder, RISING), lines 211-212.  A rising edge latches the line's    *)
(* interrupt flag, also while a handler runs; a handler is entered when its *)
(* flag is set and no handler runs, which clears the flag.                  *)

\* The main program executes: no handler runs and no interrupt is pending.
MainRuns == isr = "none" /\ ~intSw /\ ~intEnc

IncRuns(n) == IF n < MaxRuns THEN n + 1 ELSE n

\* A rising edge on the switch line.  An edge that finds the line idle starts a burst.
SwitchEdge ==
    /\ intSw' = TRUE
    /\ swRuns' = IF isr # "switch" /\ ~intSw THEN 0 ELSE swRuns
    /\ UNCHANGED <<status, frequency, pc, reg, searchDirection, seeking, buf, lcd, radio, cmds,
                   isr, intEnc, encRuns, edges>>

\* isrEncoder runs: in its pause, or after its digitalRead(ENCODER_B).
InEncoder == isr \in {"encoder", "encoderHigh", "encoderLow"}

\* A rising edge on encoder line A, the limit-th at most.
EncoderEdgeUpTo(limit) ==
    /\ edges < limit
    /\ edges' = edges + 1
    /\ intEnc' = TRUE
    /\ encRuns' = IF ~InEncoder /\ ~intEnc THEN 0 ELSE encRuns
    /\ UNCHANGED <<status, frequency, pc, reg, searchDirection, seeking, buf, lcd, radio, cmds,
                   isr, intSw, swRuns>>

EncoderEdge == EncoderEdgeUpTo(MaxEdges)

\* isrSwitch is entered and starts its delay(50), line 136.
isrSwitchEnter ==
    /\ isr = "none"
    /\ intSw
    /\ isr' = "switch"
    /\ intSw' = FALSE
    /\ UNCHANGED <<status, frequency, pc, reg, searchDirection, seeking, buf, lcd, radio, cmds,
                   intEnc, swRuns, encRuns, edges>>

\* Lines 137-140 with a switch to manual mode that also ends the search.
ToggleAutoCancels(value) ==
    IF bitRead(value, ST_AUTO) = 1
    THEN bitWrite(bitWrite(value, ST_AUTO, 0), ST_SEARCH, 0)
    ELSE bitWrite(value, ST_AUTO, 1)

\* Lines 137-140: the new status byte.
ToggleAuto(value) ==
    IF bitRead(value, ST_AUTO) = 1
    THEN bitWrite(value, ST_AUTO, 0)
    ELSE bitWrite(value, ST_AUTO, 1)

\* isrSwitch after its pause, lines 137-141.
isrSwitch ==
    /\ isr = "switch"
    /\ status' = ToggleAuto(status)
    /\ isr' = "none"
    /\ swRuns' = IncRuns(swRuns)
    /\ UNCHANGED <<frequency, pc, reg, searchDirection, seeking, buf, lcd, radio, cmds,
                   intSw, intEnc, encRuns, edges>>

\* isrEncoder is entered and starts its delay(50), line 123.
isrEncoderEnter ==
    /\ isr = "none"
    /\ intEnc
    /\ isr' = "encoder"
    /\ intEnc' = FALSE
    /\ UNCHANGED <<status, frequency, pc, reg, searchDirection, seeking, buf, lcd, radio, cmds,
                   intSw, swRuns, encRuns, edges>>

\* Line 124: after the pause the handler reads ENCODER_B, at one of pinLevels.
isrEncoderRead(pinLevels) ==
    /\ isr = "encoder"
    /\ \E levelB \in pinLevels :
          isr' = IF levelB = "HIGH" THEN "encoderHigh" ELSE "encoderLow"
    /\ UNCHANGED <<status, frequency, pc, reg, searchDirection, seeking, buf, lcd, radio, cmds,
                   intSw, intEnc, swRuns, encRuns, edges>>

\* Lines 124-127 with the two flags exchanged.
EncoderFlagSwapped(levelB) == IF levelB = "HIGH" THEN ST_GO_DOWN ELSE ST_GO_UP

\* Lines 124-127: the flag chosen by the level read on ENCODER_B.
EncoderFlag(levelB) == IF levelB = "HIGH" THEN ST_GO_UP ELSE ST_GO_DOWN

\* The level the handler has read.
LevelRead == IF isr = "encoderHigh" THEN "HIGH" ELSE "LOW"

\* isrEncoder sets its flag and returns, lines 125-128.
isrEncoder ==
    /\ isr \in {"encoderHigh", "encoderLow"}
    /\ status' = bitWrite(status, EncoderFlag(LevelRead), 1)
    /\ isr' = "none"
    /\ encRuns' = IncRuns(encRuns)
    /\ UNCHANGED <<frequency, pc, reg, searchDirection, seeking, buf, lcd, radio, cmds,
                   intSw, intEnc, swRuns, edges>>

----------------------------------------------------------------------------
(* loop(), lines 224-307 *)

\* Line 232 with the two letters exchanged.
ModeLetterSwapped(value) == IF bitRead(value, ST_AUTO) = 1 THEN ChM ELSE ChA

\* Line 232: the Auto / Manual letter.
ModeLetter(value) == IF bitRead(value, ST_AUTO) = 1 THEN ChA ELSE ChM

\* Lines 224-232: a call of loop() begins (its local searchDirection holds no
\* value yet) and rewrites the Auto / Manual letter.
LoopIndicator ==
    /\ MainRuns
    /\ pc = AtLoopStart
    /\ searchDirection' = "Indeterminate"
    /\ cmds' = <<>>
    /\ lcd' = LcdWrite(LcdSetCursor(lcd, 12, 1), ModeLetter(status))
    /\ pc' = <<"Loop", "read">>
    /\ UNCHANGED <<status, frequency, reg, seeking, buf, radio, isr, intSw, intEnc,
                   swRuns, encRuns, edges>>

\* Lines 258-261 without the two blanks of line 261.
StereoCellsNoBlank(l, stereo) ==
    IF stereo
    THEN LcdWrite(LcdWrite(l, STEREO_CHAR_S), STEREO_CHAR_T)
    ELSE l

\* Lines 258-261: the two glyphs of the stereo indicator, or two blanks.
StereoCells(l, stereo) ==
    IF stereo
    THEN LcdWrite(LcdWrite(l, STEREO_CHAR_S), STEREO_CHAR_T)
    ELSE LcdPrint(l, <<ChSpace, ChSpace>>)

\* Lines 241-262: the display after a fresh reading.
Refresh(l, f, stereo, signalLevel) ==
    LET l1 == updateScale(l, f)
        l2 == LcdWrite(LcdSetCursor(l1, 0, 1), ChAntenna)
        l3 == IF signalLevel < 100 THEN LcdWrite(l2, ChSpace) ELSE l2
        l4 == LcdWrite(LcdPrint(l3, DigitsOf(signalLevel)), ChPercent)
        l5 == LcdSetCursor(l4, 6, 1)
        l6 == IF f < 10000 THEN LcdWrite(l5, ChSpace) ELSE l5
        l7 == LcdSetCursor(LcdPrint(l6, FrequencyText(f)), 14, 1)
    IN  StereoCells(l7, stereo)

\* Line 234, Radio.read_status(buf) == 1: buf receives a snapshot, which carries
\* the tuner's frequency, a stereo flag of stereos and a level of levels.
LoopReadSnapshot(stereos, levels) ==
    /\ MainRuns
    /\ pc = <<"Loop", "read">>
    /\ \E stereo \in stereos, level \in levels :
          buf' = [hz |-> radio, stereo |-> stereo, level |-> level, fresh |-> TRUE]
    /\ pc' = <<"Loop", "refresh">>
    /\ UNCHANGED <<status, frequency, reg, searchDirection, seeking, lcd, radio, cmds,
                   isr, intSw, intEnc, swRuns, encRuns, edges>>

\* Line 234, Radio.read_status(buf) # 1: no snapshot, lines 235-263 are skipped.
LoopReadNone ==
    /\ MainRuns
    /\ pc = <<"Loop", "read">>
    /\ pc' = <<"Loop", "poll">>
    /\ UNCHANGED <<status, frequency, reg, searchDirection, seeking, buf, lcd, radio, cmds,
                   isr, intSw, intEnc, swRuns, encRuns, edges>>

LoopReadStatus(stereos, levels) ==
    LoopReadSnapshot(stereos, levels) \/ LoopReadNone

\* Lines 235-263: the snapshot gives frequency and the display is refreshed.
LoopRefresh ==
    /\ MainRuns
    /\ pc = <<"Loop", "refresh">>
    /\ frequency' = ReadFrequency(buf.hz)
    /\ lcd' = Refresh(lcd, ReadFrequency(buf.hz), buf.stereo, SignalPercent(buf.level))
    /\ buf' = NoSnapshot
    /\ pc' = <<"Loop", "poll">>
    /\ UNCHANGED <<status, reg, searchDirection, seeking, radio, cmds,
                   isr, intSw, intEnc, swRuns, encRuns, edges>>

\* The values a read of the local searchDirection can give: the value assigned
\* in this call of loop(), or, before any assignment (line 228 gives it none),
\* whatever the build left there: one of the two directions or something else.
ReadsOf(direction) ==
    IF direction = "Indeterminate" THEN {"Up", "Down", "Other"} ELSE {direction}

\* Lines 265-266: while ST_SEARCH is set, Radio.process_search(buf, searchDirection)
\* tells whether the search is over.  searchDirection then holds the value passed.
LoopPollSearch ==
    /\ MainRuns
    /\ pc = <<"Loop", "poll">>
    /\ IF bitRead(status, ST_SEARCH) = 1
       THEN /\ searchDirection' \in ReadsOf(searchDirection)
            /\ \E over \in BOOLEAN :
                  pc' = IF over THEN <<"Loop", "poll_load">> ELSE <<"Up", "test">>
       ELSE /\ pc' = <<"Up", "test">>
            /\ UNCHANGED searchDirection
    /\ UNCHANGED <<status, frequency, reg, seeking, buf, lcd, radio, cmds,
                   isr, intSw, intEnc, swRuns, encRuns, edges>>

\* Line 267, bitWrite(status, ST_SEARCH, 0): the load.
LoopEndSearchLoad ==
    /\ MainRuns
    /\ pc = <<"Loop", "poll_load">>
    /\ reg' = status
    /\ pc' = <<"Loop", "poll_store">>
    /\ UNCHANGED <<status, frequency, searchDirection, seeking, buf, lcd, radio, cmds,
                   isr, intSw, intEnc, swRuns, encRuns, edges>>

\* Line 267, bitWrite(status, ST_SEARCH, 0): the store.
LoopEndSearchStore ==
    /\ MainRuns
    /\ pc = <<"Loop", "poll_store">>
    /\ status' = bitWrite(reg, ST_SEARCH, 0)
    /\ seeking' = "None"
    /\ reg' = 0
    /\ pc' = <<"Up", "test">>
    /\ UNCHANGED <<frequency, searchDirection, buf, lcd, radio, cmds,
                   isr, intSw, intEnc, swRuns, encRuns, edges>>

\* Lines 290 and 304 copied from lines 272 and 286 with the flag left as it was.
GoFlagCopied(d) == ST_GO_UP

\* The flag of a direction block: lines 272 and 290.
GoFlag(d) == IF d = "Up" THEN ST_GO_UP ELSE ST_GO_DOWN

\* The blocks of lines 272 and 290 as alternatives: either ends the call.
AfterBlockEndsCall(d) == AtLoopStart

\* Where loop() goes after the block of direction d.
AfterBlock(d) == IF d = "Up" THEN <<"Down", "test">> ELSE AtLoopStart

\* The test of lines 273 and 291 without its !bitRead(status, ST_SEARCH).
TakesSearchUnguarded(value) == bitRead(value, ST_AUTO) = 1

\* Lines 273 and 291: the automatic-search branch is taken.
TakesSearch(value) == bitRead(value, ST_AUTO) = 1 /\ bitRead(value, ST_SEARCH) = 0

\* Lines 272-273 (290-291): the tests that choose the branch.
LoopGoTest(d) ==
    /\ MainRuns
    /\ pc = <<d, "test">>
    /\ pc' = IF bitRead(status, GoFlag(d)) = 0 THEN AfterBlock(d)
             ELSE IF TakesSearch(status) THEN <<d, "search_load">>
             ELSE <<d, "manual">>
    /\ UNCHANGED <<status, frequency, reg, searchDirection, seeking, buf, lcd, radio, cmds,
                   isr, intSw, intEnc, swRuns, encRuns, edges>>

\* Lines 275 and 293, bitWrite(status, ST_SEARCH, 1): the load.
LoopSearchLoad(d) ==
    /\ MainRuns
    /\ pc = <<d, "search_load">>
    /\ reg' = status
    /\ pc' = <<d, "search_store">>
    /\ UNCHANGED <<status, frequency, searchDirection, seeking, buf, lcd, radio, cmds,
                   isr, intSw, intEnc, swRuns, encRuns, edges>>

\* Lines 275 and 293, bitWrite(status, ST_SEARCH, 1): the store.
LoopSearchStore(d) ==
    /\ MainRuns
    /\ pc = <<d, "search_store">>
    /\ status' = bitWrite(reg, ST_SEARCH, 1)
    /\ reg' = 0
    /\ pc' = <<d, "search_command">>
    /\ UNCHANGED <<frequency, searchDirection, seeking, buf, lcd, radio, cmds,
                   isr, intSw, intEnc, swRuns, encRuns, edges>>

\* Lines 276-278 and 294-296: the search command and the settle pause.  The
\* tuner leaves for a station or a band limit.
LoopSearchCommand(d) ==
    /\ MainRuns
    /\ pc = <<d, "search_command">>
    /\ searchDirection' = d
    /\ seeking' = d
    /\ cmds' = Append(cmds, [op |-> "search", dir |-> d, f |-> 0])
    /\ radio' \in Stations
    /\ pc' = <<d, "clear_load">>
    /\ UNCHANGED <<status, frequency, reg, buf, lcd, isr, intSw, intEnc,
                   swRuns, encRuns, edges>>

\* The test of lines 281 and 299 with <= and >= for < and >.
CanStepAtEdge(d, f) == IF d = "Up" THEN f <= FreqMax ELSE f >= FreqMin

\* Lines 281 and 299: the test of the manual step.
CanStep(d, f) == IF d = "Up" THEN f < FreqMax ELSE f > FreqMin

\* Lines 282 and 300 with 0.2 for 0.1.
StepFrequencyCoarse(d, f) == IF d = "Up" THEN f + 2 * FreqStep ELSE f - 2 * FreqStep

\* Lines 282 and 300: frequency += 0.1, frequency -= 0.1.
StepFrequency(d, f) == IF d = "Up" THEN f + FreqStep ELSE f - FreqStep

\* Lines 280-284 and 298-302: the manual step.
LoopManual(d) ==
    /\ MainRuns
    /\ pc = <<d, "manual">>
    /\ IF CanStep(d, frequency)
       THEN /\ frequency' = StepFrequency(d, frequency)
            /\ radio' = StepFrequency(d, frequency)
            /\ cmds' = Append(cmds, [op |-> "set_frequency", dir |-> d,
                                     f |-> StepFrequency(d, frequency)])
       ELSE UNCHANGED <<frequency, radio, cmds>>
    /\ pc' = <<d, "clear_load">>
    /\ UNCHANGED <<status, reg, searchDirection, seeking, buf, lcd, isr, intSw, intEnc,
                   swRuns, encRuns, edges>>

\* Lines 286 and 304, bitWrite(status, ST_GO_UP / ST_GO_DOWN, 0): the load.
LoopClearLoad(d) ==
    /\ MainRuns
    /\ pc = <<d, "clear_load">>
    /\ reg' = status
    /\ pc' = <<d, "clear_store">>
    /\ UNCHANGED <<status, frequency, searchDirection, seeking, buf, lcd, radio, cmds,
                   isr, intSw, intEnc, swRuns, encRuns, edges>>

\* Lines 286 and 304, bitWrite(status, ST_GO_UP / ST_GO_DOWN, 0): the store.
LoopClearStore(d) ==
    /\ MainRuns
    /\ pc = <<d, "clear_store">>
    /\ status' = bitWrite(reg, GoFlag(d), 0)
    /\ reg' = 0
    /\ pc' = AfterBlock(d)
    /\ UNCHANGED <<frequency, searchDirection, seeking, buf, lcd, radio, cmds,
                   isr, intSw, intEnc, swRuns, encRuns, edges>>

----------------------------------------------------------------------------
(* The program *)

Interrupt ==
    \/ SwitchEdge
    \/ EncoderEdge
    \/ isrSwitchEnter
    \/ isrSwitch
    \/ isrEncoderEnter
    \/ isrEncoderRead({"HIGH", "LOW"})
    \/ isrEncoder

\* loop() but for the refresh of lines 235-263.
LoopRest ==
    \/ LoopIndicator
    \/ LoopReadStatus(Mono, Levels)
    \/ LoopPollSearch
    \/ LoopEndSearchLoad
    \/ LoopEndSearchStore
    \/ \E d \in Directions :
          \/ LoopGoTest(d)
          \/ LoopSearchLoad(d)
          \/ LoopSearchStore(d)
          \/ LoopSearchCommand(d)
          \/ LoopManual(d)
          \/ LoopClearLoad(d)
          \/ LoopClearStore(d)

Loop == LoopRefresh \/ LoopRest

Next == Interrupt \/ Loop

Spec == Init /\ [][Next]_vars

----------------------------------------------------------------------------
(* The manual step alone: lines 280-284 and 298-302 applied to every        *)
(* frequency of the band on a 0.05 MHz grid.                                *)

StepGrid == {8800 + 5 * k : k \in 0 .. 400}

InitStep ==
    /\ \E d \in Directions :
          /\ pc = <<d, "manual">>
          /\ status = bitWrite(0, GoFlag(d), 1)
    /\ frequency \in StepGrid
    /\ radio = frequency
    /\ reg = 0
    /\ searchDirection = "Indeterminate"
    /\ seeking = "None"
    /\ buf = NoSnapshot
    /\ lcd = LcdAfterSetup
    /\ cmds = <<>>
    /\ isr = "none"
    /\ intSw = FALSE
    /\ intEnc = FALSE
    /\ swRuns = 0
    /\ encRuns = 0
    /\ edges = 0

NextStep == \E d \in Directions : LoopManual(d)

SpecStep == InitStep /\ [][NextStep]_vars

----------------------------------------------------------------------------
(* The dial alone: lines 234-263 applied once to a tuner found anywhere in  *)
(* the band.                                                                *)

\* Tuner frequencies whose reading is a frequency of 88.0 .. 108.0 MHz.
BandReadings == 8795 .. 10804

InitScale ==
    /\ radio \in BandReadings
    /\ pc = <<"Loop", "read">>
    /\ status = 0
    /\ frequency = 8800
    /\ reg = 0
    /\ searchDirection = "Indeterminate"
    /\ seeking = "None"
    /\ buf = NoSnapshot
    /\ lcd = LcdWrite(LcdSetCursor(LcdAfterSetup, 12, 1), ChM)
    /\ cmds = <<>>
    /\ isr = "none"
    /\ intSw = FALSE
    /\ intEnc = FALSE
    /\ swRuns = 0
    /\ encRuns = 0
    /\ edges = 0

NextScale == LoopReadStatus(BOOLEAN, Levels) \/ LoopRefresh

SpecScale == InitScale /\ [][NextScale]_vars

----------------------------------------------------------------------------
(* Isolated turns up in manual mode: the button is not pressed, every edge   *)
(* of the encoder arrives after the previous one was consumed (no flag is    *)
(* set, no handler runs or is pending) and finds ENCODER_B HIGH, and every   *)
(* call of loop() obtains a snapshot of the tuner.                           *)

EventArrives ==
    /\ status = 0
    /\ MainRuns
    /\ EncoderEdgeUpTo(SixEvents)

NextSix ==
    \/ EventArrives
    \/ isrEncoderEnter
    \/ isrEncoderRead({"HIGH"})
    \/ isrEncoder
    \/ LoopIndicator
    \/ LoopReadSnapshot(Mono, Levels)
    \/ LoopRefresh
    \/ LoopPollSearch
    \/ \E d \in Directions : LoopGoTest(d)
    \/ LoopManual("Up")
    \/ LoopClearLoad("Up")
    \/ LoopClearStore("Up")

SpecSix == Init /\ [][NextSix]_vars

----------------------------------------------------------------------------
(* The panel: the encoder is not turned, the button is pressed at will, and  *)
(* the snapshots carry every level and both values of the stereo flag.       *)

NextPanel ==
    \/ SwitchEdge
    \/ isrSwitchEnter
    \/ isrSwitch
    \/ LoopIndicator
    \/ LoopReadStatus(BOOLEAN, AllLevels)
    \/ LoopRefresh
    \/ LoopPollSearch
    \/ \E d \in Directions : LoopGoTest(d)

SpecPanel == Init /\ [][NextPanel]_vars

----------------------------------------------------------------------------
(* Both direction flags pending: a call of loop() begins with ST_GO_UP and   *)
(* ST_GO_DOWN set by two earlier runs of isrEncoder, in either mode, at a    *)
(* frequency of the 0.1 MHz grid at, next to or away from a band edge, on a  *)
(* tuner that has given no snapshot yet.  The encoder is then left alone;    *)
(* the button is pressed at will.                                            *)

BothFrequencies == {8800, 8810, 9800, 10790, 10800}

InitBoth ==
    /\ status \in {bitWrite(bitWrite(m, ST_GO_UP, 1), ST_GO_DOWN, 1) : m \in {0, 1}}
    /\ frequency \in BothFrequencies
    /\ radio = frequency
    /\ pc = AtLoopStart
    /\ reg = 0
    /\ searchDirection = "Indeterminate"
    /\ seeking = "None"
    /\ buf = NoSnapshot
    /\ lcd = LcdAfterSetup
    /\ cmds = <<>>
    /\ isr = "none"
    /\ intSw = FALSE
    /\ intEnc = FALSE
    /\ swRuns = 0
    /\ encRuns = 0
    /\ edges = 0

NextBoth ==
    \/ SwitchEdge
    \/ isrSwitchEnter
    \/ isrSwitch
    \/ Loop

SpecBoth == InitBoth /\ [][NextBoth]_vars

----------------------------------------------------------------------------
(* Fair runs: main() calls loop() for ever (the sketch has no other main     *)
(* program), so a step of loop() that stays possible is taken, and a handler *)
(* that was entered runs to its return.  The button and the encoder give a   *)
(* bounded number of rising edges.  LoopRefresh is possible exactly in the   *)
(* states RefreshDue and always leaves them, so its weak fairness is         *)
(* []<>~RefreshDue.                                                          *)

\* A rising edge on the switch line, counted with the encoder's.
SwitchEdgeUpTo(limit) ==
    /\ edges < limit
    /\ edges' = edges + 1
    /\ intSw' = TRUE
    /\ swRuns' = IF isr # "switch" /\ ~intSw THEN 0 ELSE swRuns
    /\ UNCHANGED <<status, frequency, pc, reg, searchDirection, seeking, buf, lcd,
                   radio, cmds, isr, intEnc, encRuns>>

Handlers ==
    \/ isrSwitchEnter
    \/ isrSwitch
    \/ isrEncoderEnter
    \/ isrEncoderRead({"HIGH", "LOW"})
    \/ isrEncoder

NextLive ==
    \/ SwitchEdgeUpTo(LiveEdges)
    \/ EncoderEdgeUpTo(LiveEdges)
    \/ Handlers
    \/ Loop

\* loop() stands before the refresh and can take it.
RefreshDue == MainRuns /\ pc = <<"Loop", "refresh">>

SpecLive ==
    /\ Init
    /\ [][NextLive]_vars
    /\ WF_vars(LoopRest)
    /\ []<>~RefreshDue
    /\ WF_vars(Handlers)

----------------------------------------------------------------------------
(* Properties *)

Auto == bitRead(status, ST_AUTO) = 1

Searching == bitRead(status, ST_SEARCH) = 1

\* loop() takes a step.
LoopSteps == pc' # pc

\* The last command loop() sent in the current call is a search command.
SearchSent(log) == log # <<>> /\ log[Len(log)].op = "search"

\* C1: in every reachable state frequency lies in [88.0, 108.0] MHz.
FrequencyInBand == frequency >= 8800 /\ frequency <= 10800

\* C2: a direction event processed while searching is true is dropped: no
\* manual step (no change of frequency, no set_frequency command) is made at a
\* point where searching is true.
NoManualStepWhileSearching ==
    [][\A d \in Directions :
          (pc = <<d, "manual">> /\ LoopSteps /\ Searching)
              => (frequency' = frequency /\ cmds' = cmds)]_vars

\* C3: a direction flag set by the encoder handler is never lost to the
\* controller's clear of another flag: the store that completes a clear of
\* ST_SEARCH, of ST_GO_UP or of ST_GO_DOWN leaves every other direction flag
\* that is set, set.
HandlerSetNeverLost ==
    [][\A b \in {ST_GO_UP, ST_GO_DOWN} :
          ( /\ pc[2] \in {"poll_store", "clear_store"}
            /\ LoopSteps
            /\ ~(pc[2] = "clear_store" /\ b = GoFlag(pc[1]))
            /\ bitRead(status, b) = 1 )
              => bitRead(status', b) = 1]_vars

\* C4: the search branch is entered only on a test that finds the direction
\* flag set, autoMode true and searching false; searching stays false and the
\* flag set until the branch sets searching, which nothing else does; the
\* search command goes out only then, once: no search command is sent while a
\* search is already in progress.
SearchBranchState ==
    /\ pc[2] \in {"search_load", "search_store"}
          => (~Searching /\ bitRead(status, GoFlag(pc[1])) = 1 /\ ~SearchSent(cmds))
    /\ pc[2] = "search_command" => (Searching /\ ~SearchSent(cmds))

SearchBranchStep ==
    /\ (pc'[2] = "search_load" /\ LoopSteps)
          => (Auto /\ ~Searching /\ bitRead(status, GoFlag(pc'[1])) = 1)
    /\ (~Searching /\ Searching') => pc[2] = "search_store"
    /\ (SearchSent(cmds') /\ cmds' # cmds) => pc[2] = "search_command"

SearchOnlyWhenIdle == []SearchBranchState /\ [][SearchBranchStep]_vars

\* C4 witness: a search command has just gone out and searching is set.
SearchStarted ==
    /\ pc[2] = "clear_load"
    /\ SearchSent(cmds)
    /\ Searching

OutOfRangeIgnored ==
    [][\A d \in Directions :
          /\ ( /\ pc = <<d, "manual">>
               /\ LoopSteps
               /\ frequency = (IF d = "Up" THEN 10800 ELSE 8800) )
                 => ( /\ frequency' = frequency
                      /\ cmds' = cmds
                      /\ radio' = radio
                      /\ pc' = <<d, "clear_load">> )
          /\ (pc = <<d, "clear_store">> /\ LoopSteps)
                 => (bitRead(status', GoFlag(d)) = 0 /\ pc' = AfterBlock(d))]_vars

\* C6 witness: in manual mode the goUp block has passed its manual step at
\* 108.0 without a command and stands before the clear of the flag.
OutOfRangeSeen ==
    /\ pc = <<"Up", "clear_load">>
    /\ ~Auto
    /\ frequency = 10800
    /\ cmds = <<>>
    /\ bitRead(status, ST_GO_UP) = 1

\* C7: autoMode changes only in a run of the button handler: no step of
\* loop() and no run of the encoder handler changes the ST_AUTO bit.
AutoChangesOnlyInSwitchHandler ==
    [][bitRead(status', ST_AUTO) # bitRead(status, ST_AUTO) => isr = "switch"]_vars

\* The cells of the dial row that show a needle glyph.
Needles == {c \in 0 .. 15 : lcd.cells[c] \in 0 .. 4}

\* C8: the dial row never shows more than one needle glyph, whatever the
\* succession of frequencies of the band it was updated with (the row holds
\* nothing but glyphs 0..5: no frequency below the band is on display).
DialShowsOneNeedle ==
    (\A c \in 0 .. 15 : lcd.cells[c] \in 0 .. 5) => Cardinality(Needles) <= 1

\* A fresh reading has been displayed (the antenna icon is written).
Refreshed == lcd.cells[LcdAddr(0, 1)] = ChAntenna

\* (major, minor) of g is not beyond (major, minor) of f.
ScaleNotBeyond(g, f) ==
    \/ lcdMajor(g) < lcdMajor(f)
    \/ lcdMajor(g) = lcdMajor(f) /\ lcdMinor(g) <= lcdMinor(f)

\* C9: for a frequency f of the band on the 0.1 MHz grid the dial position is
\* (f - 88.0) * 4 truncated and clamped to 0..79, the needle stands in cell
\* position / 5 (0..15) with glyph position % 5 (0..4), the pair does not
\* decrease with f, and it is (0, 0) at 88.0 and (15, 4) at 108.0.
ScaleMapping ==
    Refreshed =>
        /\ lcdBase(frequency) \in 0 .. 79
        /\ 25 * lcdBase(frequency) <= frequency - 8800
        /\ lcdBase(frequency) = 79 \/ frequency - 8800 < 25 * (lcdBase(frequency) + 1)
        /\ lcdMajor(frequency) = lcdBase(frequency) \div 5
        /\ lcdMinor(frequency) = lcdBase(frequency) % 5
        /\ lcdMajor(frequency) \in 0 .. 15
        /\ lcdMinor(frequency) \in 0 .. 4
        /\ lcd.cells[lcdMajor(frequency)] = lcdMinor(frequency)
        /\ frequency = 8800 => (lcdMajor(frequency) = 0 /\ lcdMinor(frequency) = 0)
        /\ frequency = 10800 => (lcdMajor(frequency) = 15 /\ lcdMinor(frequency) = 4)
        /\ \A k \in 0 .. 200 :
              8800 + 10 * k <= frequency => ScaleNotBeyond(8800 + 10 * k, frequency)

\* C9 witness: 108.0 MHz is displayed, the needle in the last cell.
ScaleAtTop ==
    /\ Refreshed
    /\ frequency = 10800
    /\ lcd.cells[15] = 4

\* C10: a burst of edges makes its handler act once: the button edges of one
\* debounce window toggle autoMode once, the encoder edges of one window set
\* one direction flag.
BurstActsOnce == swRuns <= 1 /\ encRuns <= 1

\* Every encoder event that arrived has been consumed by loop().
EventsConsumed ==
    /\ MainRuns
    /\ bitRead(status, ST_GO_UP) = 0
    /\ bitRead(status, ST_GO_DOWN) = 0

\* The dial of display l shows one needle, at the cell and glyph of frequency f.
DialShows(l, f) ==
    /\ {c \in 0 .. 15 : l.cells[c] \in 0 .. 4} = {lcdMajor(f)}
    /\ l.cells[lcdMajor(f)] = lcdMinor(f)

SixStepsState ==
    /\ EventsConsumed => (frequency = 8800 + 10 * edges /\ radio = frequency)
    /\ Len(cmds) <= 1
    /\ pc \in {<<"Loop", "poll">>, <<"Up", "test">>, <<"Up", "manual">>}
          => DialShows(lcd, frequency)

SixStepsStep ==
    /\ (cmds' # cmds /\ cmds' # <<>>)
          => ( /\ pc = <<"Up", "manual">>
               /\ frequency = 8800 + 10 * (edges - 1)
               /\ frequency' = frequency + 10
               /\ cmds' = <<[op |-> "set_frequency", dir |-> "Up", f |-> frequency']>> )
    /\ frequency' # frequency => (cmds' # cmds /\ cmds' # <<>>)
    /\ (pc = <<"Loop", "refresh">> /\ LoopSteps)
          => (frequency' = radio /\ DialShows(lcd', frequency'))

\* C11: from 88.0 MHz in manual mode, goUp events that are each consumed
\* before the next arrives, with the tuner reporting the last commanded
\* frequency, advance frequency by 0.1 MHz each (88.1, ..., 88.6 after six):
\* the k-th event causes exactly one set_frequency command, which carries
\* 88.0 + k * 0.1, nothing else sends a command or moves frequency, and the
\* refresh that follows writes the needle at the dial position of the new
\* frequency before the next event is processed.
SixEventsSixSteps == []SixStepsState /\ [][SixStepsStep]_vars

\* C11 witness: the sixth event is consumed, frequency is 88.6 MHz and the dial
\* has been rewritten for it.
SixthShown ==
    /\ edges = 6
    /\ EventsConsumed
    /\ pc = <<"Loop", "poll">>
    /\ frequency = 8860
    /\ DialShows(lcd, 8860)

SearchHeldState ==
    pc \in {<<"Loop", "poll_load">>, <<"Loop", "poll_store">>} => Searching

SearchHeldStep ==
    /\ (Searching /\ ~Searching') => pc = <<"Loop", "poll_store">>
    /\ (pc' = <<"Loop", "poll_load">> /\ LoopSteps)
          => (pc = <<"Loop", "poll">> /\ Searching)
    /\ (pc' = <<"Loop", "poll_store">> /\ LoopSteps) => pc = <<"Loop", "poll_load">>
    /\ (pc = <<"Loop", "poll_store">> /\ LoopSteps)
          => (~Searching' /\ pc' = <<"Up", "test">>)

\* C12: once searching is true it stays true until a call of loop() in which
\* process_search reports the search over, and it is cleared in that very
\* call: ST_SEARCH goes from 1 to 0 only in the store of line 267, which is
\* reached only from the poll of a set ST_SEARCH that returned 1; no run of a
\* handler, no direction event, no manual step and no reading clears it.
SearchingHeldUntilOver == []SearchHeldState /\ [][SearchHeldStep]_vars

\* C12 witness: a call of loop() polled the search, was told it is over and
\* has cleared ST_SEARCH.
SearchJustEnded ==
    /\ pc = <<"Up", "test">>
    /\ searchDirection # "Indeterminate"
    /\ ~Searching

\* Everything of the sketch but status is as before the step.
OnlyStatusMayChange ==
    /\ frequency' = frequency
    /\ radio' = radio
    /\ cmds' = cmds
    /\ lcd' = lcd
    /\ pc' = pc
    /\ reg' = reg
    /\ searchDirection' = searchDirection

\* C13: a run of the encoder handler sets exactly one of goUp and goDown,
\* goUp if ENCODER_B read HIGH after the pause and goDown otherwise, and
\* changes nothing else: every other bit of status keeps its value (no flag
\* is cleared), and frequency, the tuner and the display are untouched.
EncoderHandlerSetsOneFlag ==
    [][ /\ (InEncoder \/ InEncoder') /\ isr' # isr => OnlyStatusMayChange
        /\ (isr' \in {"encoder", "encoderHigh", "encoderLow"} /\ isr' # isr)
              => status' = status
        /\ (isr = "encoderHigh" /\ isr' = "none")
              => ( /\ bitRead(status', ST_GO_UP) = 1
                   /\ \A b \in 0 .. 7 : b # ST_GO_UP => bitRead(status', b) = bitRead(status, b) )
        /\ (isr = "encoderLow" /\ isr' = "none")
              => ( /\ bitRead(status', ST_GO_DOWN) = 1
                   /\ \A b \in 0 .. 7 : b # ST_GO_DOWN => bitRead(status', b) = bitRead(status, b) )
      ]_vars

\* C13 witness: in automatic mode the handler has run once on its burst, read
\* ENCODER_B LOW and set goDown; goUp is clear and autoMode is still set.
EncoderHandlerRan ==
    /\ isr = "none"
    /\ encRuns = 1
    /\ Auto
    /\ bitRead(status, ST_GO_DOWN) = 1
    /\ bitRead(status, ST_GO_UP) = 0

\* The cell of the Auto / Manual letter: column 12 of row 1.
LetterCell == LcdAddr(12, 1)

\* Every visible cell but the Auto / Manual letter is as before the step.
FieldsKept == lcd'.cells = [lcd.cells EXCEPT ![LetterCell] = lcd'.cells[LetterCell]]

\* C14: in a call of loop() that obtains no snapshot the Auto / Manual letter
\* is still rewritten ('A' iff autoMode is set when it is written) and the
\* refresh is skipped: the step that finds no snapshot leaves the display,
\* frequency and status as they are and goes on to the poll of the search and
\* the direction blocks; the dial row and the signal, frequency and stereo
\* fields change in no step other than the refresh of a snapshot.
NoSnapshotSkipsRefresh ==
    [][ /\ (pc = AtLoopStart /\ LoopSteps)
              => ( /\ lcd'.cells[LetterCell] = (IF Auto THEN ChA ELSE ChM)
                   /\ FieldsKept
                   /\ frequency' = frequency
                   /\ pc' = <<"Loop", "read">> )
        /\ (pc = <<"Loop", "read">> /\ pc' # <<"Loop", "refresh">> /\ LoopSteps)
              => ( /\ lcd' = lcd
                   /\ frequency' = frequency
                   /\ status' = status
                   /\ pc' = <<"Loop", "poll">> )
        /\ pc # <<"Loop", "refresh">> => FieldsKept
      ]_vars

\* C14 witness: in automatic mode, after a search command moved the tuner, a
\* call of loop() wrote the letter 'A', obtained no snapshot and stands at the
\* poll with the fields of an earlier refresh and the frequency of before.
NoSnapshotSeen ==
    /\ pc = <<"Loop", "poll">>
    /\ Auto
    /\ lcd.cells[LetterCell] = ChA
    /\ Refreshed
    /\ frequency # ReadFrequency(radio)

\* The two cells of the stereo indicator: columns 14 and 15 of row 1.
StereoShown(l) == <<l.cells[LcdAddr(14, 1)], l.cells[LcdAddr(15, 1)]>>

\* C15: after every refresh of a snapshot the two stereo cells show the two
\* stereo glyphs if the stereo flag of that snapshot is set and two blanks if
\* it is not, and no other step writes the two cells: the indicator always
\* corresponds to the most recent snapshot.
StereoFollowsSnapshot ==
    [][ /\ (pc = <<"Loop", "refresh">> /\ LoopSteps)
              => StereoShown(lcd') = (IF buf.stereo
                                     THEN <<STEREO_CHAR_S, STEREO_CHAR_T>>
                                     ELSE <<ChSpace, ChSpace>>)
        /\ pc # <<"Loop", "refresh">> => StereoShown(lcd') = StereoShown(lcd)
      ]_vars

\* C15 witness: a snapshot without stereo is about to be displayed over the
\* two glyphs left by a snapshot with stereo.
StereoGoesOff ==
    /\ pc = <<"Loop", "refresh">>
    /\ ~buf.stereo
    /\ StereoShown(lcd) = <<STEREO_CHAR_S, STEREO_CHAR_T>>

\* The signal field of display l: columns 0 .. 4 of row 1.
SignalShown(l) == [c \in 0 .. 4 |-> l.cells[LcdAddr(c, 1)]]

\* The signal field a level gives on the display as setup() leaves it.
SignalFieldOf(level) ==
    SignalShown(Refresh(LcdAfterSetup, FreqMin, FALSE, SignalPercent(level)))

\* C18: after every refresh of a snapshot the signal field (columns 0 .. 4 of
\* row 1: antenna icon, level * 100 / 15 truncated, '%') is a function of the
\* level of that snapshot alone, for every level 0 .. 15 and whatever was
\* displayed before: it is what that level gives on a blank field, no
\* character of an earlier value remains.
SignalFieldOfLevelAlone ==
    [][(pc = <<"Loop", "refresh">> /\ LoopSteps)
          => SignalShown(lcd') = SignalFieldOf(buf.level)]_vars

\* The set_frequency command of direction d that carries f.
SetCommand(d, f) == [op |-> "set_frequency", dir |-> d, f |-> f]

\* Until the goUp block acts, the call of loop() has sent nothing; between a
\* manual step up and the manual step of the goDown block, frequency is the
\* value the step up commanded.
BothFlagsState ==
    /\ pc \in {<<"Up", "test">>, <<"Up", "manual">>, <<"Up", "search_load">>} => cmds = <<>>
    /\ ( /\ pc \in {<<"Up", "clear_load">>, <<"Up", "clear_store">>,
                     <<"Down", "test">>, <<"Down", "manual">>}
         /\ cmds # <<>>
         /\ cmds[1].op = "set_frequency" )
            => (cmds = <<SetCommand("Up", frequency)>> /\ radio = frequency)

BothFlagsStep ==
    /\ \A d \in Directions :
          /\ (pc = <<d, "test">> /\ LoopSteps /\ bitRead(status, GoFlag(d)) = 1)
                => ( /\ pc' \in {<<d, "search_load">>, <<d, "manual">>}
                     /\ ~Auto => pc' = <<d, "manual">> )
          /\ (pc[1] = d /\ pc[2] # "test" /\ LoopSteps)
                => \/ pc'[1] = d
                   \/ /\ pc[2] = "clear_store"
                      /\ pc' = (IF d = "Up" THEN <<"Down", "test">> ELSE AtLoopStart)
          /\ (pc = <<d, "clear_store">> /\ LoopSteps)
                => bitRead(status', GoFlag(d)) = 0
    /\ (pc'[1] = "Down" /\ pc[1] # "Down" /\ LoopSteps) => pc[1] = "Up"
    /\ ( /\ pc = <<"Up", "manual">>
         /\ LoopSteps
         /\ frequency > 8800 /\ frequency < 10800 )
            => ( /\ frequency' = frequency + 10
                 /\ cmds' = <<SetCommand("Up", frequency + 10)>> )
    /\ ( /\ pc = <<"Down", "manual">>
         /\ LoopSteps
         /\ cmds # <<>>
         /\ cmds[1].op = "set_frequency"
         /\ frequency > 8810 /\ frequency < 10810 )
            => ( /\ frequency' = frequency - 10
                 /\ cmds' = <<SetCommand("Up", frequency), SetCommand("Down", frequency - 10)>> )

\* C16: when the tests of lines 272 and 290 of one call of loop() both find
\* their flag set, both blocks run in that call, the goUp block first and to
\* its end before the goDown block, and each block ends by clearing its flag;
\* in manual mode at a frequency f with 88.0 < f < 108.0 the call sends
\* set_frequency(f + 0.1) and then set_frequency(f), and frequency is f again.
BothFlagsBothProcessed == []BothFlagsState /\ [][BothFlagsStep]_vars

\* C16 witness: in manual mode a call of loop() that found both flags set at
\* 98.0 MHz has sent set_frequency(98.1) and set_frequency(98.0), cleared both
\* flags and left frequency at 98.0.
BothFlagsDone ==
    /\ pc = AtLoopStart
    /\ ~Auto
    /\ cmds = <<SetCommand("Up", 9810), SetCommand("Down", 9800)>>
    /\ frequency = 9800
    /\ bitRead(status, ST_GO_UP) = 0
    /\ bitRead(status, ST_GO_DOWN) = 0

\* C17: whenever loop() polls the search (process_search, line 266), the
\* direction it passes is the direction of the search command that set
\* ST_SEARCH, in every call of loop() for the whole duration of the search,
\* also in a call that has issued no search command before the poll.
PollPassesSearchDirection ==
    [][(pc = <<"Loop", "poll">> /\ LoopSteps /\ Searching)
          => searchDirection' = seeking]_vars

\* f is the multiple of 0.1 MHz nearest to hz (halves go up).
NearestOnGrid(f, hz) ==
    /\ f % 10 = 0
    /\ f - hz <= 5
    /\ hz - f < 5

FrequencyWrites ==
    /\ (pc = <<"Loop", "refresh">> /\ LoopSteps) => NearestOnGrid(frequency', buf.hz)
    /\ frequency' # frequency
          => \/ pc = <<"Loop", "refresh">>
             \/ pc = <<"Up", "manual">> /\ frequency' = frequency + 10
             \/ pc = <<"Down", "manual">> /\ frequency' = frequency - 10

\* C20: in every reachable state frequency is a whole multiple of 0.1 MHz:
\* the refresh of a snapshot sets it to the tuner's frequency rounded to the
\* nearest 0.1 MHz, a manual step changes it by exactly 0.1 MHz, and no
\* other step writes it.
FrequencyOnGrid == [](frequency % 10 = 0) /\ [][FrequencyWrites]_vars

\* C20 witness: the tuner stands at 91.96 MHz and the refresh of its snapshot
\* has set frequency to 92.0 MHz.
OffGridReadingRounded ==
    /\ pc = <<"Loop", "poll">>
    /\ radio = 9196
    /\ frequency = 9200

\* C19: under fair scheduling every call of loop() returns (loop() is at its
\* start again and again) and every direction flag that is set is eventually
\* clear again, whatever the mode, the state of the search (also one that the
\* tuner never reports over) and the availability of snapshots.
EveryFlagConsumed ==
    /\ []<>(pc = AtLoopStart)
    /\ \A b \in {ST_GO_UP, ST_GO_DOWN} :
          (bitRead(status, b) = 1) ~> (bitRead(status, b) = 0)

\* C19 witness: while a search is in progress and polled, a direction flag set
\* by the handler stands before the test of its block.
FlagPendingDuringSearch ==
    /\ pc = <<"Down", "test">>
    /\ Searching
    /\ searchDirection # "Indeterminate"
    /\ bitRead(status, ST_GO_DOWN) = 1


====
